------------------------------ MODULE Spec2Model ------------------------------
(***************************************************************************)
(* Model of bot.py: the scheduler thread (scheduler_loop, post_news,       *)
(* send_brief) and the webhook handler (handle_update, handle_admin_text)  *)
(* over the module globals they share.                                     *)
(*                                                                         *)
(* A text is a sequence of characters, a character a one-element string.   *)
(* The keyboard-button glyphs of MAIN_KEYBOARD are single symbolic         *)
(* characters ("BTN_PAUSE", ...), and "SUP2" is U+00B2 SUPERSCRIPT TWO.    *)
(***************************************************************************)
EXTENDS Integers, Sequences, FiniteSets, TLC

VARIABLES
    POSTING_PAUSED,           \* bot.py:58
    NEWS_INTERVAL_MINUTES,    \* bot.py:57
    campaign_enabled,         \* bot.py:67
    campaign_text,            \* bot.py:68
    sent_ids,                 \* bot.py:60
    recent_news,              \* bot.py:61
    last_news_run_ts,         \* bot.py:63
    last_morning_brief_date,  \* bot.py:64
    last_night_brief_date,    \* bot.py:65
    pc,                       \* position of the scheduler thread in scheduler_loop
    now_ts,                   \* scheduler_loop locals now_ts / now_ist (one clock reading)
    entries,                  \* post_news local: the list fetch_news returned
    idx,                      \* post_news: position of the for loop in entries
    count,                    \* post_news local count
    \* ---- observation (history) variables, never read by the program ----
    attempts,                 \* id -> number of channel sends post_news issued for it
    cycStatus,                \* what the post_news call of this tick did so far
    cycLedger,                \* sent_ids when the running cycle fetched
    cycWeb,                   \* what the feeds served to the running cycle
    cycAttempted,             \* ids this cycle issued a channel send for, in order
    lastSend,                 \* outcome of the last channel send of post_news
    briefLog,                 \* what the brief section of the last tick did
    upd,                      \* the last webhook update and what handling it did
    ticks,                    \* number of scheduler_loop iterations begun
    pauseCmd,                 \* TRUE iff the last pause/resume command handled was a pause
    tickAfterPause,           \* TRUE iff this tick began after that pause was handled
    briefHistory,             \* every send_brief call so far: <<mode, IST date>>, in order
    lastStart,                \* clock reading of the last tick that called post_news (0: none)
    everAborted,              \* TRUE iff an exception has left a post_news call
    aiCall                    \* the last ai_summarize call followed on its own, and its result

vars == <<POSTING_PAUSED, NEWS_INTERVAL_MINUTES, campaign_enabled, campaign_text,
          sent_ids, recent_news, last_news_run_ts, last_morning_brief_date,
          last_night_brief_date, pc, now_ts, entries, idx, count,
          attempts, cycStatus, cycLedger, cycWeb, cycAttempted, lastSend, briefLog, upd,
          ticks, pauseCmd, tickAfterPause, briefHistory, lastStart, everAborted, aiCall>>

-------------------------------------------------------------------------------
(* Bounds of the model.                                                    *)

\* Entry ids are 1..NumIds, in order of publication.
NumIds == 6

\* The scheduler loop is followed for at most MaxTicks iterations.
MaxTicks == 3

-------------------------------------------------------------------------------
(* Python string operations used by handle_admin_text.                     *)

RECURSIVE LStrip(_)
LStrip(s) == IF s # <<>> /\ Head(s) = " " THEN LStrip(Tail(s)) ELSE s

RECURSIVE RStrip(_)
RStrip(s) == IF s # <<>> /\ s[Len(s)] = " " THEN RStrip(SubSeq(s, 1, Len(s) - 1)) ELSE s

\* str.strip()
Strip(s) == RStrip(LStrip(s))

UpperCase == ("P" :> "p") @@ ("R" :> "r") @@ ("I" :> "i") @@ ("S" :> "s") @@ ("T" :> "t")
              @@ ("C" :> "c") @@ ("O" :> "o") @@ ("N" :> "n")

\* str.lower()
Lower(s) == [k \in 1..Len(s) |-> IF s[k] \in DOMAIN UpperCase THEN UpperCase[s[k]] ELSE s[k]]

\* str.startswith(p)
StartsWith(s, p) == Len(s) >= Len(p) /\ SubSeq(s, 1, Len(p)) = p

\* p in s
Contains(s, p) == \E k \in 1..(Len(s) - Len(p) + 1) : SubSeq(s, k, k + Len(p) - 1) = p

\* the first word of s (s does not start with a space) 
RECURSIVE FirstWord(_)
FirstWord(s) == IF s = <<>> \/ Head(s) = " " THEN <<>> ELSE <<Head(s)>> \o FirstWord(Tail(s))

\* str.split(): the maximal runs of non-space characters
RECURSIVE Split(_)
Split(s) ==
    LET r == LStrip(s) IN
    IF r = <<>> THEN <<>>
    ELSE <<FirstWord(r)>> \o Split(SubSeq(r, Len(FirstWord(r)) + 1, Len(r)))

\* Characters int() reads as decimal digits, with their values.
DecimalValue == ("0" :> 0) @@ ("1" :> 1) @@ ("2" :> 2) @@ ("3" :> 3) @@ ("4" :> 4)
                @@ ("5" :> 5) @@ ("6" :> 6) @@ ("7" :> 7) @@ ("8" :> 8) @@ ("9" :> 9)

\* Characters for which str.isdigit() is true although int() rejects them
\* (Numeric_Type=Digit but not Decimal, such as the superscript digits).
DigitNotDecimal == {"SUP2"}

\* str.isdigit(): non-empty and every character a digit
IsDigit(w) == w # <<>> /\ \A k \in 1..Len(w) : w[k] \in DOMAIN DecimalValue \cup DigitNotDecimal

\* int(w) raises ValueError
IntRaises(w) == w = <<>> \/ \E k \in 1..Len(w) : w[k] \notin DOMAIN DecimalValue

\* int(w) for a w it accepts
RECURSIVE IntValue(_)
IntValue(w) == IF w = <<>> THEN 0 ELSE 10 * IntValue(SubSeq(w, 1, Len(w) - 1)) + DecimalValue[w[Len(w)]]

-------------------------------------------------------------------------------
(* String literals of handle_admin_text.                                   *)

L_menu == <<"m", "e", "n", "u">>
L_slash_menu == <<"/", "m", "e", "n", "u">>
L_help == <<"h", "e", "l", "p">>
L_start == <<"/", "s", "t", "a", "r", "t">>
L_status == <<"s", "t", "a", "t", "u", "s">>
L_pause == <<"p", "a", "u", "s", "e">>
L_resume == <<"r", "e", "s", "u", "m", "e">>
L_interval == <<"i", "n", "t", "e", "r", "v", "a", "l">>
L_test_news == <<"t", "e", "s", "t", " ", "n", "e", "w", "s">>
L_campaign_on == <<"c", "a", "m", "p", "a", "i", "g", "n", " ", "o", "n">>
L_campaign_off == <<"c", "a", "m", "p", "a", "i", "g", "n", " ", "o", "f", "f">>
L_sources == <<"s", "o", "u", "r", "c", "e", "s">>
L_close_keyboard == <<"c", "l", "o", "s", "e", " ", "k", "e", "y", "b", "o", "a", "r", "d">>
K_status == <<"BTN_STATUS">>
K_pause == <<"BTN_PAUSE">>
K_resume == <<"BTN_RESUME">>
K_interval == <<"BTN_INTERVAL">>
K_test_news == <<"BTN_TEST_NEWS">>
K_campaign == <<"BTN_CAMPAIGN">>
K_sources == <<"BTN_SOURCES">>
K_close == <<"BTN_CLOSE">>

-------------------------------------------------------------------------------
(* Configuration and constants of bot.py.                                  *)

\* ADMIN_USER_IDS as parsed from the environment: one admin (the owner).
ADMIN_USER_IDS == {101}

\* from.id of the inbound updates: 0 is a missing id, 202 a stranger.
UserIds == {0, 101, 202}

NEWS_PER_RUN == 5

DefaultIntervalMinutes == 30

\* feed.entries[:6]
PerFeedLimit == 6

\* len(recent_news) > 100
RecentLimit == 100

\* the three urls of RSS_LINKS
RSS_LINKS == <<1, 2, 3>>

\* last_morning_brief_date = None
NoDate == -1

\* timedelta(hours=5, minutes=30), in seconds
IstOffset == 19800

\* time.time() when the scheduler thread starts: 08:50 IST on 2025-01-01 (day 20089)
StartTs == 20089 * 86400 - IstOffset + 8 * 3600 + 50 * 60

Ids == 1..NumIds

-------------------------------------------------------------------------------
(* fetch_news over what the three feeds serve.                             *)
(* A raw feed item is [id, link, image]; id or link 0 means the attribute  *)
(* is missing or empty. A source is [items, failAt]: failAt = k > 0 means  *)
(* the k-th item raises inside the try block (k = 1: nothing collected, as *)
(* when feedparser.parse itself raises).                                   *)

Min(a, b) == IF a <= b THEN a ELSE b

RECURSIVE Reverse(_)
Reverse(s) == IF s = <<>> THEN <<>> ELSE Reverse(Tail(s)) \o <<Head(s)>>

\* getattr(e, "id", None) or getattr(e, "link", None)
Eid(e) == IF e.id # 0 THEN e.id ELSE e.link

\* the body of the try block of fetch_news for one url
RECURSIVE CollectItems(_, _)
CollectItems(items, n) ==
    IF n = 0 \/ items = <<>> THEN <<>>
    ELSE (IF Eid(Head(items)) = 0 THEN <<>>
          ELSE <<[id |-> Eid(Head(items)), image |-> Head(items).image]>>)
         \o CollectItems(Tail(items), n - 1)

FetchSource(src) ==
    LET limit == Min(Len(src.items), PerFeedLimit)
        n == IF src.failAt = 0 THEN limit ELSE Min(src.failAt - 1, limit)
    IN CollectItems(src.items, n)

RECURSIVE ConcatSources(_, _)
ConcatSources(web, k) ==
    IF k > Len(RSS_LINKS) THEN <<>> ELSE FetchSource(web[RSS_LINKS[k]]) \o ConcatSources(web, k + 1)

\* one try block around the whole of fetch_news: a failing feed leaves nothing
fetch_news_AllOrNothing(web) ==
    IF \E k \in 1..Len(RSS_LINKS) : web[RSS_LINKS[k]].failAt # 0 THEN <<>>
    ELSE Reverse(ConcatSources(web, 1))

\* entries[::-1]
fetch_news(web) == Reverse(ConcatSources(web, 1))

-------------------------------------------------------------------------------
(* ai_summarize over the responses of the two backends.                    *)

\* What ai_call_deepseek / ai_call_openai can meet:
\*   unconfigured : no API key                              -> None
\*   error        : request, r.json() or json.loads raised  -> None
\*   null         : content is the JSON null                -> None
\*   object_ok    : a JSON object with a non-blank string summary_hi
\*   object_blank : a JSON object with summary_hi missing or blank
\*   object_bad   : a JSON object whose summary_hi or hashtags is not a string
\*   non_object   : content is a JSON array, string or number
BackendResponses ==
    {"unconfigured", "error", "null", "object_ok", "object_blank", "object_bad", "non_object"}

\* the value ai_call_deepseek / ai_call_openai returns: "None" or the parsed JSON
ai_call(resp) == IF resp \in {"unconfigured", "error", "null"} THEN "None" ELSE resp

\* ai_summarize: "summary" (the backend's text), "fallback" (the local text, never
\* empty: it ends in "...") or "raises" (AttributeError from obj.get / .strip())
ai_summarize(d, o) ==
    LET obj == IF ai_call(d) = "None" THEN ai_call(o) ELSE ai_call(d) IN
    IF obj = "None" THEN "fallback"
    ELSE IF obj = "non_object" \/ obj = "object_bad" THEN "raises"
    ELSE IF obj = "object_ok" THEN "summary"
    ELSE "fallback"

\* what a call of ai_summarize can do, over all responses of the two backends
AiOutcomes == {ai_summarize(d, o) : d \in BackendResponses, o \in BackendResponses}

\* text[:700]
TextLimit == 700

\* text[:200]
FallbackLimit == 200

\* s[:n]
Take(s, n) == SubSeq(s, 1, Min(Len(s), n))

\* obj.get("summary_hi", "").strip() of a response of kind object_ok: not empty
BackendSummary == <<"s">>

\* the summary_hi ai_summarize returns (<<>> when it raises and returns nothing):
\* the backend's text, or f"{title}\n\n{text[:200]}..."
ai_summary(title, description, d, o) ==
    LET text == Take(IF description # <<>> THEN description ELSE title, TextLimit) IN
    IF ai_summarize(d, o) = "summary" THEN BackendSummary
    ELSE IF ai_summarize(d, o) = "fallback"
    THEN title \o <<"\n", "\n">> \o Take(text, FallbackLimit) \o <<".", ".", ".">>
    ELSE <<>>

-------------------------------------------------------------------------------
(* The admin panel: handle_update and handle_admin_text.                   *)

\* is_admin with the membership test lost
is_admin_Everyone(user_id) == TRUE

is_admin(user_id) == user_id \in ADMIN_USER_IDS

\* the pause branch writing what the resume branch writes
PauseValue_AsResume == FALSE

\* the value the pause branch writes to POSTING_PAUSED
PauseValue == TRUE

\* the value the resume branch writes to POSTING_PAUSED
ResumeValue == FALSE

\* 5 <= minutes <= 180
IntervalInBound(minutes) == 5 <= minutes /\ minutes <= 180

\* the shared settings as they are when the handler starts
Settings ==
    [paused |-> POSTING_PAUSED, interval |-> NEWS_INTERVAL_MINUTES,
     enabled |-> campaign_enabled, ctext |-> campaign_text]

\* What the status branch renders of the shared state: the interval, the pause flag,
\* len(sent_ids) and len(recent_news). (It also renders the clock and ai_error_streak,
\* the count of consecutive ai_summarize fallbacks; neither is followed here.)
StatusReply ==
    [interval |-> NEWS_INTERVAL_MINUTES, paused |-> POSTING_PAUSED,
     sent_ids |-> Cardinality(sent_ids), recent_news |-> Len(recent_news)]

\* one bot.send_message / bot.send_photo call issued to the chat the update came from
Reply(kind) == <<kind>>

Outcome(st, branch, sends, raised) ==
    [st |-> st, branch |-> branch, sends |-> sends, raised |-> raised]

\* the interval branch
IntervalBranch(t, st) ==
    LET parts == Split(t) IN
    IF Len(parts) = 2 /\ IsDigit(parts[2])
    THEN IF IntRaises(parts[2])
         THEN Outcome(st, "interval", <<>>, TRUE)
         ELSE IF IntervalInBound(IntValue(parts[2]))
              THEN Outcome([st EXCEPT !.interval = IntValue(parts[2])], "interval",
                           Reply("interval_set"), FALSE)
              ELSE Outcome(st, "interval", Reply("interval_range"), FALSE)
    ELSE Outcome(st, "interval", Reply("interval_usage"), FALSE)

\* the test news branch: fetch_news, ai_summarize of the last entry, one send in a try
TestNewsBranch(st, es, ai) ==
    IF es = <<>> THEN Outcome(st, "test_news", Reply("no_news"), FALSE)
    ELSE IF ai = "raises" THEN Outcome(st, "test_news", <<>>, TRUE)
    ELSE Outcome(st, "test_news",
                 Reply(IF es[Len(es)].image THEN "test_photo" ELSE "test_message"), FALSE)

\* the campaign on branch; rest is taken from the text as typed
CampaignOnBranch(text, st) ==
    LET rest == Strip(SubSeq(text, Len(L_campaign_on) + 1, Len(text))) IN
    IF rest = <<>> THEN Outcome(st, "campaign_on", Reply("campaign_usage"), FALSE)
    ELSE Outcome([st EXCEPT !.enabled = TRUE, !.ctext = rest], "campaign_on",
                 Reply("campaign_on"), FALSE)

\* handle_admin_text(chat_id, user_id, text): the settings it leaves, the branch taken,
\* the sends it issued to chat_id and whether an exception left it before any send.
\* es is what fetch_news returns, ai what ai_summarize does. Every write to the settings
\* precedes the branch's send, so whether that send succeeds changes nothing here.
handle_admin_text(text, st, es, ai) ==
    LET t == Lower(Strip(text)) IN
    IF t \in {L_menu, L_slash_menu, L_help, L_start}
    THEN Outcome(st, "menu", Reply("menu"), FALSE)
    ELSE IF Contains(t, L_status) \/ StartsWith(t, K_status)
    THEN Outcome(st, "status", Reply("status"), FALSE)
    ELSE IF StartsWith(t, L_pause) \/ StartsWith(t, K_pause)
    THEN Outcome([st EXCEPT !.paused = PauseValue], "pause", Reply("paused"), FALSE)
    ELSE IF StartsWith(t, L_resume) \/ StartsWith(t, K_resume)
    THEN Outcome([st EXCEPT !.paused = ResumeValue], "resume", Reply("resumed"), FALSE)
    ELSE IF StartsWith(t, L_interval)
    THEN IntervalBranch(t, st)
    ELSE IF StartsWith(t, K_interval)
    THEN Outcome(st, "interval_button", Reply("interval_example"), FALSE)
    ELSE IF StartsWith(t, L_test_news) \/ StartsWith(t, K_test_news)
    THEN TestNewsBranch(st, es, ai)
    ELSE IF StartsWith(t, L_campaign_on)
    THEN CampaignOnBranch(text, st)
    ELSE IF StartsWith(t, L_campaign_off) \/ StartsWith(t, K_campaign)
    THEN Outcome([st EXCEPT !.enabled = FALSE, !.ctext = <<>>], "campaign_off",
                 Reply("campaign_off"), FALSE)
    ELSE IF StartsWith(t, L_sources) \/ StartsWith(t, K_sources)
    THEN Outcome(st, "sources", Reply("sources"), FALSE)
    ELSE IF Contains(t, L_close_keyboard) \/ Contains(t, K_close)
    THEN Outcome(st, "close_keyboard", Reply("keyboard_closed"), FALSE)
    ELSE Outcome(st, "unknown", Reply("unknown"), FALSE)

\* handle_update(update) for an update carrying a message
handle_update(chat_type, user_id, text, st, es, ai) ==
    IF chat_type # "private" \/ text = <<>> THEN Outcome(st, "ignored", <<>>, FALSE)
    ELSE IF user_id = 0 THEN Outcome(st, "no_user", <<>>, FALSE)
    ELSE IF ~is_admin(user_id) THEN Outcome(st, "refused", Reply("refusal"), FALSE)
    ELSE handle_admin_text(text, st, es, ai)

-------------------------------------------------------------------------------
(* The inputs the model draws from.                                        *)

Item(n) == [id |-> n, link |-> n, image |-> (n % 2 = 0)]

\* an item without id: its link is its eid
LinkOnly(n) == [id |-> 0, link |-> n, image |-> FALSE]

\* an item with neither id nor link
Blank == [id |-> 0, link |-> 0, image |-> TRUE]

Max(S) == CHOOSE m \in S : \A n \in S : n <= m

\* the items with ids S, newest (highest id) first, as feeds list them
RECURSIVE DescItems(_)
DescItems(S) == IF S = {} THEN <<>> ELSE <<Item(Max(S))>> \o DescItems(S \ {Max(S)})

Served(items) == [items |-> items, failAt |-> 0]

Failing(items, k) == [items |-> items, failAt |-> k]

\* the ids lo..hi spread over the three feeds
SplitWeb(lo, hi) ==
    <<Served(DescItems({n \in lo..hi : n % 3 = 1})),
      Served(DescItems({n \in lo..hi : n % 3 = 2})),
      Served(DescItems({n \in lo..hi : n % 3 = 0}))>>

\* the first feed alone serves the ids lo..hi, under one item without id or link
\* (more than feed.entries[:6] keeps when hi - lo >= 5)
SingleWeb(lo, hi) == <<Served(<<Blank>> \o DescItems(lo..hi)), Served(<<>>), Served(<<>>)>>

\* the third feed repeats the items of the first: one id twice in one fetch
DupWeb(lo, hi) ==
    <<SplitWeb(lo, hi)[1], SplitWeb(lo, hi)[2],
      Served(SplitWeb(lo, hi)[3].items \o SplitWeb(lo, hi)[1].items)>>

\* the first feed fails at once, the second at its second item
FailWeb(lo, hi) ==
    <<Failing(SplitWeb(lo, hi)[1].items, 1), Failing(SplitWeb(lo, hi)[2].items, 2),
      SplitWeb(lo, hi)[3]>>

\* items without id in the second feed
NoIdWeb(lo, hi) ==
    <<SplitWeb(lo, hi)[1], Served(<<Blank, LinkOnly(hi)>> \o SplitWeb(lo, hi)[2].items),
      SplitWeb(lo, hi)[3]>>

Webs ==
    {SplitWeb(1, hi) : hi \in {0, 3, NumIds}}
    \cup {SingleWeb(0, NumIds), DupWeb(1, NumIds - 1), FailWeb(1, NumIds), NoIdWeb(1, 3)}

\* what the feeds serve when an admin asks for test news
TestWebs == {SplitWeb(1, 0), SplitWeb(1, 2), SplitWeb(2, 2)}

Sp == <<" ">>

AllTexts ==
    {L_menu, L_start, L_status, L_pause \o Sp \o L_status, L_pause,
     Sp \o <<"P", "a", "u", "s", "e">> \o Sp, K_pause \o Sp \o <<"P">> \o Tail(L_pause),
     L_resume, K_resume \o Sp \o <<"R">> \o Tail(L_resume),
     L_interval \o Sp \o <<"3", "0">>, L_interval \o Sp \o <<"4">>,
     L_interval \o Sp \o <<"5">>, L_interval \o Sp \o <<"1", "8", "0">>,
     L_interval \o Sp \o <<"1", "8", "1">>, L_interval, L_interval \o Sp \o <<"x">>,
     L_interval \o Sp \o <<"-", "5">>, L_interval \o Sp \o <<"SUP2">>,
     L_interval \o Sp \o <<"5">> \o Sp \o <<"5">>, L_interval \o <<"s">> \o Sp \o <<"9">>,
     K_interval \o Sp \o <<"I">> \o Tail(L_interval),
     L_test_news, L_campaign_on \o Sp \o <<"x">>, <<"C">> \o Tail(L_campaign_on) \o Sp \o <<"T">>,
     L_campaign_on, L_campaign_off, K_campaign \o Sp \o <<"C">>, L_sources,
     L_close_keyboard, <<"h", "i">>, <<>>}

\* the commands the delivery pipeline reads the effect of
CoreTexts == {L_pause, L_resume}

ChatTypes == {"private", "group"}

-------------------------------------------------------------------------------
(* The initial state: the module globals as bot.py sets them, the          *)
(* scheduler thread about to enter its loop.                               *)

\* no status reply
NoStatus == [interval |-> 0, paused |-> FALSE, sent_ids |-> 0, recent_news |-> 0]

\* no entry previewed by test news
NoPreview == [id |-> 0, new |-> FALSE, tick |-> 0]

NoUpdate == [chat_type |-> "none", user_id |-> 0, text |-> <<>>, branch |-> "none",
             sends |-> <<>>, raised |-> FALSE, status |-> NoStatus, preview |-> NoPreview]

\* no ai_summarize call followed yet
NoAiCall == [called |-> FALSE, title |-> <<>>, description |-> <<>>, deepseek |-> "none",
             openai |-> "none", outcome |-> "none", summary |-> <<>>]

Init ==
    /\ POSTING_PAUSED = FALSE
    /\ NEWS_INTERVAL_MINUTES = DefaultIntervalMinutes
    /\ campaign_enabled = FALSE
    /\ campaign_text = <<>>
    /\ sent_ids = {}
    /\ recent_news = <<>>
    /\ last_news_run_ts = 0
    /\ last_morning_brief_date = NoDate
    /\ last_night_brief_date = NoDate
    /\ pc = "tick"
    /\ now_ts = StartTs
    /\ entries = <<>>
    /\ idx = 0
    /\ count = 0
    /\ attempts = [n \in Ids |-> 0]
    /\ cycStatus = "idle"
    /\ cycLedger = {}
    /\ cycWeb = <<>>
    /\ cycAttempted = <<>>
    /\ lastSend = "none"
    /\ briefLog = <<>>
    /\ upd = NoUpdate
    /\ ticks = 0
    /\ pauseCmd = FALSE
    /\ tickAfterPause = FALSE
    /\ briefHistory = <<>>
    /\ lastStart = 0
    /\ everAborted = FALSE
    /\ aiCall = NoAiCall

adminVars == <<POSTING_PAUSED, NEWS_INTERVAL_MINUTES, campaign_enabled, campaign_text>>

ledgerVars == <<sent_ids, recent_news, attempts>>

briefVars == <<last_morning_brief_date, last_night_brief_date, briefLog, briefHistory>>

cycleVars == <<entries, idx, count, cycStatus, cycLedger, cycWeb, cycAttempted, lastSend>>

-------------------------------------------------------------------------------
(* The scheduler thread: scheduler_loop, post_news, send_brief.            *)

\* scheduler_loop: now_ist.hour == 9
MorningHour == 9

\* scheduler_loop: now_ist.hour == 22
NightHour == 22

\* ist_now().hour for the clock reading ts
ist_hour(ts) == ((ts + IstOffset) \div 3600) % 24

\* ist_now().date(), as a day number
ist_date(ts) == (ts + IstOffset) \div 86400

\* add_recent_news(entry)
add_recent_news(list, e) ==
    LET l == Append(list, e) IN
    IF Len(l) > RecentLimit THEN SubSeq(l, Len(l) - RecentLimit + 1, Len(l)) ELSE l

\* the gate with the interval test lost
SchedulerGate_NoInterval(now) == ~POSTING_PAUSED

\* scheduler_loop: if not POSTING_PAUSED: if now_ts - last_news_run_ts >= NEWS_INTERVAL_MINUTES * 60
SchedulerGate(now) ==
    ~POSTING_PAUSED /\ now - last_news_run_ts >= NEWS_INTERVAL_MINUTES * 60

\* post_news without its own pause gate
PostNewsPaused_NoGate == FALSE

\* post_news: if POSTING_PAUSED: return
PostNewsPaused == POSTING_PAUSED

\* the quota test off by one
QuotaReached_OffByOne(c) == c > NEWS_PER_RUN

\* post_news: if count >= NEWS_PER_RUN: break
QuotaReached(c) == c >= NEWS_PER_RUN

\* the duplicate check against the ledger as it was when the cycle fetched
InLedger_AtFetch(id) == id \in cycLedger

\* post_news: if e["id"] in sent_ids: continue
InLedger(id) == id \in sent_ids

\* the ledger assigned, not added to
RecordSent_Replace(ledger, id, sendOk) == {id}

\* the id recorded only when the send succeeded
RecordSent_OnSuccess(ledger, id, sendOk) == IF sendOk THEN ledger \cup {id} ELSE ledger

\* post_news: sent_ids.add(e["id"]), after the try block, whatever the send did
RecordSent(ledger, id, sendOk) == ledger \cup {id}

\* the top of one loop iteration: the clock is read, the news gate evaluated
Tick(steps) ==
    /\ pc = "tick"
    /\ ticks < MaxTicks
    /\ \E d \in steps :
          /\ now_ts' = now_ts + d
          /\ pc' = IF SchedulerGate(now_ts + d) THEN "post_news" ELSE "briefs"
          /\ lastStart' = IF SchedulerGate(now_ts + d) THEN now_ts + d ELSE lastStart
    /\ ticks' = ticks + 1
    /\ tickAfterPause' = pauseCmd
    /\ briefLog' = <<>>
    /\ UNCHANGED <<adminVars, ledgerVars, cycleVars, last_news_run_ts,
                   last_morning_brief_date, last_night_brief_date, briefHistory, upd,
                   pauseCmd, everAborted, aiCall>>

\* post_news up to the loop: the pause gate, then fetch_news; when post_news returns
\* here, scheduler_loop sets last_news_run_ts
PostNewsEnter(webs) ==
    /\ pc = "post_news"
    /\ IF PostNewsPaused
       THEN /\ cycStatus' = "skipped"
            /\ last_news_run_ts' = now_ts
            /\ pc' = "briefs"
            /\ UNCHANGED <<entries, idx, count, cycLedger, cycWeb>>
       ELSE /\ \E web \in webs : cycWeb' = web /\ entries' = fetch_news(web)
            /\ idx' = 1
            /\ count' = 0
            /\ cycStatus' = "running"
            /\ cycLedger' = sent_ids
            /\ pc' = "loop"
            /\ UNCHANGED last_news_run_ts
    /\ UNCHANGED <<adminVars, ledgerVars, briefVars, now_ts, cycAttempted, lastSend, upd,
                   ticks, pauseCmd, tickAfterPause, lastStart, everAborted, aiCall>>

\* the exception of post_news ending the scheduler thread
AfterException_Uncaught == "dead"

\* scheduler_loop: except Exception around post_news(); the iteration goes on
AfterException == "briefs"

\* one iteration of the for loop of post_news (or its end); an exception of
\* ai_summarize leaves post_news and is caught in scheduler_loop
PostNewsLoop ==
    /\ pc = "loop"
    /\ IF idx > Len(entries) \/ QuotaReached(count)
       THEN /\ cycStatus' = "done"
            /\ last_news_run_ts' = now_ts
            /\ pc' = "briefs"
            /\ UNCHANGED <<ledgerVars, idx, count, cycAttempted, lastSend, everAborted>>
       ELSE IF InLedger(entries[idx].id)
       THEN /\ idx' = idx + 1
            /\ UNCHANGED <<ledgerVars, count, cycAttempted, lastSend, cycStatus,
                           last_news_run_ts, pc, everAborted>>
       ELSE \E ai \in AiOutcomes, sendOk \in BOOLEAN :
               IF ai = "raises"
               THEN /\ cycStatus' = "aborted"
                    /\ last_news_run_ts' = now_ts
                    /\ pc' = AfterException
                    /\ everAborted' = TRUE
                    /\ UNCHANGED <<ledgerVars, idx, count, cycAttempted, lastSend>>
               ELSE /\ attempts' = [attempts EXCEPT ![entries[idx].id] = Min(@ + 1, 2)]
                    /\ lastSend' = IF sendOk THEN "ok" ELSE "raised"
                    /\ cycAttempted' = Append(cycAttempted, entries[idx].id)
                    /\ sent_ids' = RecordSent(sent_ids, entries[idx].id, sendOk)
                    /\ recent_news' = add_recent_news(recent_news, entries[idx])
                    /\ count' = count + 1
                    /\ idx' = idx + 1
                    /\ UNCHANGED <<cycStatus, last_news_run_ts, pc, everAborted>>
    /\ UNCHANGED <<adminVars, briefVars, now_ts, entries, cycLedger, cycWeb, upd, ticks,
                   pauseCmd, tickAfterPause, lastStart, aiCall>>

\* a brief whose trigger hour is skipped while posting is paused
BriefDue_UnlessPaused(hour, last) ==
    ~POSTING_PAUSED /\ ist_hour(now_ts) = hour /\ last # ist_date(now_ts)

\* scheduler_loop: if now_ist.hour == 9: if last_morning_brief_date != now_ist.date()
\* (and the same for 22 and last_night_brief_date)
BriefDue(hour, last) == ist_hour(now_ts) = hour /\ last # ist_date(now_ts)

\* the brief date left as it was
BriefMark_Forgotten(last) == last

\* scheduler_loop: last_morning_brief_date = now_ist.date(), after the try block
BriefMark(last) == ist_date(now_ts)

\* send_brief(mode) as called from scheduler_loop: what became of the brief
send_brief(ai, sendOk) ==
    IF recent_news = <<>> THEN "no_news"
    ELSE IF ai = "raises" THEN "ai_raised"
    ELSE IF sendOk THEN "sent" ELSE "send_failed"

\* the rest of the iteration: morning brief, night brief, sleep
Briefs ==
    /\ pc = "briefs"
    /\ \E ai \in AiOutcomes, sendOk \in BOOLEAN :
          LET morning == BriefDue(MorningHour, last_morning_brief_date)
              night == BriefDue(NightHour, last_night_brief_date)
          IN /\ last_morning_brief_date' =
                    IF morning THEN BriefMark(last_morning_brief_date)
                    ELSE last_morning_brief_date
             /\ last_night_brief_date' =
                    IF night THEN BriefMark(last_night_brief_date) ELSE last_night_brief_date
             /\ briefLog' = (IF morning THEN <<<<"morning", send_brief(ai, sendOk)>>>> ELSE <<>>)
                            \o (IF night THEN <<<<"night", send_brief(ai, sendOk)>>>> ELSE <<>>)
             /\ briefHistory' =
                    briefHistory
                    \o (IF morning THEN <<<<"morning", ist_date(now_ts)>>>> ELSE <<>>)
                    \o (IF night THEN <<<<"night", ist_date(now_ts)>>>> ELSE <<>>)
    /\ pc' = "tick"
    /\ entries' = <<>>
    /\ idx' = 0
    /\ count' = 0
    /\ cycStatus' = "idle"
    /\ cycLedger' = {}
    /\ cycWeb' = <<>>
    /\ cycAttempted' = <<>>
    /\ lastSend' = "none"
    /\ UNCHANGED <<adminVars, ledgerVars, last_news_run_ts, now_ts, upd, ticks, pauseCmd,
                   tickAfterPause, lastStart, everAborted, aiCall>>

-------------------------------------------------------------------------------
(* The webhook: one inbound update, handled to its end.                    *)

\* the test news branch recording the entry it previews as sent
LedgerAfterPreview_Recorded(ledger, id) == ledger \cup {id}

\* the test news branch: e = entries[-1] is summarised and sent to chat_id; sent_ids
\* is not written
LedgerAfterPreview(ledger, id) == ledger

\* The feeds and the AI backends are consulted only on the test news branch: only
\* there are their answers enumerated.
ReachesTestNews(chat_type, user_id, text) ==
    handle_update(chat_type, user_id, text, Settings, <<>>, "fallback").branch = "test_news"

HandleUpdate(texts, users, chats, webs) ==
    \E chat_type \in chats, user_id \in users, text \in texts :
    \E env \in IF ReachesTestNews(chat_type, user_id, text)
                THEN {fetch_news(web) : web \in webs} \X AiOutcomes
                ELSE {<<(<<>>), "fallback">>} :
       LET out == handle_update(chat_type, user_id, text, Settings, env[1], env[2])
           previewed == out.branch = "test_news" /\ env[1] # <<>> /\ out.sends # <<>>
           e == env[1][Len(env[1])]
       IN
       /\ POSTING_PAUSED' = out.st.paused
       /\ NEWS_INTERVAL_MINUTES' = out.st.interval
       /\ campaign_enabled' = out.st.enabled
       /\ campaign_text' = out.st.ctext
       /\ upd' = [chat_type |-> chat_type, user_id |-> user_id, text |-> text,
                  branch |-> out.branch, sends |-> out.sends, raised |-> out.raised,
                  status |-> IF out.branch = "status" THEN StatusReply ELSE NoStatus,
                  preview |-> IF previewed
                              THEN [id |-> e.id, new |-> ~InLedger(e.id), tick |-> ticks]
                              ELSE NoPreview]
       /\ sent_ids' = IF previewed THEN LedgerAfterPreview(sent_ids, e.id) ELSE sent_ids
       /\ pauseCmd' = IF out.branch = "pause" THEN TRUE
                      ELSE IF out.branch = "resume" THEN FALSE ELSE pauseCmd
       /\ tickAfterPause' = IF out.branch = "resume" THEN FALSE ELSE tickAfterPause
       /\ UNCHANGED <<recent_news, attempts, briefVars, cycleVars, last_news_run_ts, pc,
                      now_ts, ticks, lastStart, everAborted, aiCall>>

\* One call of ai_summarize(title, description, link, mode), followed on its own: the
\* two backends answer d and o.
Summarize(titles, descriptions) ==
    \E title \in titles, description \in descriptions,
       d \in BackendResponses, o \in BackendResponses :
       /\ aiCall' = [called |-> TRUE, title |-> title, description |-> description,
                     deepseek |-> d, openai |-> o, outcome |-> ai_summarize(d, o),
                     summary |-> ai_summary(title, description, d, o)]
       /\ UNCHANGED <<adminVars, ledgerVars, briefVars, cycleVars, last_news_run_ts, pc,
                      now_ts, upd, ticks, pauseCmd, tickAfterPause, lastStart, everAborted>>

-------------------------------------------------------------------------------
(* Specifications.                                                         *)

\* every tick comes one default interval after the last
CycleSteps == {1800}

\* The delivery pipeline with the pause and resume commands.
Next ==
    \/ Tick(CycleSteps)
    \/ PostNewsEnter(Webs)
    \/ PostNewsLoop
    \/ Briefs
    \/ HandleUpdate(CoreTexts, ADMIN_USER_IDS, {"private"}, TestWebs)

Spec == Init /\ [][Next]_vars

\* The admin panel alone, over every sample text, sender and chat type.
NextAdmin == HandleUpdate(AllTexts, UserIds, ChatTypes, TestWebs)

SpecAdmin == Init /\ [][NextAdmin]_vars

\* ticks 10 s, 5 min or 30 min apart
SchedSteps == {10, 300, 1800}

SchedWebs == {SplitWeb(1, 0), SplitWeb(1, 3)}

SchedTexts == {L_pause, L_resume, L_interval \o Sp \o <<"5">>}

\* The scheduler's timing with the commands that steer it.
NextSched ==
    \/ Tick(SchedSteps)
    \/ PostNewsEnter(SchedWebs)
    \/ PostNewsLoop
    \/ Briefs
    \/ HandleUpdate(SchedTexts, ADMIN_USER_IDS, {"private"}, TestWebs)

SpecSched == Init /\ [][NextSched]_vars

\* ticks 10 s, 10 min, 11 h or 13 h apart: from 08:50 into the hour of the morning
\* brief, on to the hour of the night brief and to the next morning
BriefSteps == {10, 600, 39600, 46800}

BriefWebs == {SplitWeb(1, 0), SplitWeb(1, 2)}

\* The scheduler over two days, with the pause and resume commands.
NextBrief ==
    \/ Tick(BriefSteps)
    \/ PostNewsEnter(BriefWebs)
    \/ PostNewsLoop
    \/ Briefs
    \/ HandleUpdate(CoreTexts, ADMIN_USER_IDS, {"private"}, TestWebs)

SpecBrief == Init /\ [][NextBrief]_vars

PanelTexts ==
    {L_status, L_test_news, L_pause, L_resume, L_interval \o Sp \o <<"5">>,
     L_campaign_on \o Sp \o <<"x">>, L_campaign_off}

PanelWebs == {SplitWeb(1, 0), SplitWeb(1, 2)}

\* The delivery pipeline with the commands of the admin panel.
NextPanel ==
    \/ Tick(CycleSteps)
    \/ PostNewsEnter(PanelWebs)
    \/ PostNewsLoop
    \/ Briefs
    \/ HandleUpdate(PanelTexts, ADMIN_USER_IDS, {"private"}, TestWebs)

SpecPanel == Init /\ [][NextPanel]_vars

LiveWebs == {SplitWeb(1, 3), SplitWeb(1, NumIds)}

NextLive ==
    \/ Tick(CycleSteps)
    \/ PostNewsEnter(LiveWebs)
    \/ PostNewsLoop
    \/ Briefs
    \/ HandleUpdate(CoreTexts, ADMIN_USER_IDS, {"private"}, TestWebs)

\* The delivery pipeline with a scheduler thread that runs: scheduler_loop is a
\* while True loop on a thread of its own, so each of its steps, once it can be taken,
\* is taken. Nothing is assumed of when updates arrive.
SpecLive ==
    /\ Init
    /\ [][NextLive]_vars
    /\ WF_vars(Tick(CycleSteps))
    /\ WF_vars(PostNewsEnter(LiveWebs))
    /\ WF_vars(PostNewsLoop)
    /\ WF_vars(Briefs)

AiTitles == {<<>>, <<"T">>}

AiDescriptions == {<<>>, <<"d">>}

\* ai_summarize alone, over every pair of backend responses.
NextAi == Summarize(AiTitles, AiDescriptions)

SpecAi == Init /\ [][NextAi]_vars

-------------------------------------------------------------------------------
(* Properties.                                                             *)

\* the ids of a list of entries
IdsOf(es) == {es[k].id : k \in 1..Len(es)}

\* the elements of a sequence
Range(q) == {q[k] : k \in 1..Len(q)}

\* C1: over the whole run, post_news issues at most one channel send for every entry
\* id, however many cycles fetch the id and also when one fetch lists it twice.
C1_AtMostOneAttempt == \A id \in Ids : attempts[id] <= 1

\* C1 witness: in a second or later cycle whose fetch holds an id the ledger already
\* had, the loop stands at an entry whose id this same cycle has already attempted.
C1_Witness ==
    /\ pc = "loop"
    /\ ticks >= 2
    /\ idx <= Len(entries)
    /\ entries[idx].id \in Range(cycAttempted)
    /\ IdsOf(entries) \cap cycLedger # {}

\* C2: a step of post_news whose send raises leaves the cycle running at the next
\* entry, with the id in the ledger; and no step attempts an id attempted before
\* (so not one whose send failed).
C2_SendFailureContained ==
    [][\A id \in Ids :
          attempts'[id] # attempts[id] =>
             /\ attempts[id] = 0
             /\ lastSend' = "raised" =>
                   /\ id \in sent_ids'
                   /\ pc' = "loop"
                   /\ cycStatus' = "running"
                   /\ idx' = idx + 1]_vars

\* C2 witness: the last send raised and the cycle stands in its loop with a new
\* entry still ahead.
C2_Witness ==
    /\ pc = "loop"
    /\ lastSend = "raised"
    /\ cycStatus = "running"
    /\ \E k \in idx..Len(entries) : entries[k].id \notin sent_ids

\* C3: when post_news is entered with POSTING_PAUSED true it returns at once: no
\* fetch, no channel send, ledger and recent-news list unchanged.
C3_PausedCycleDoesNothing ==
    [][(pc = "post_news" /\ pc' # pc /\ POSTING_PAUSED) =>
          /\ cycStatus' = "skipped"
          /\ entries' = entries
          /\ cycWeb' = cycWeb
          /\ UNCHANGED <<sent_ids, recent_news, attempts>>]_vars

\* C3 witness: post_news was entered (the scheduler's own gate had found posting
\* not paused) and returned at its pause gate.
C3_Witness == cycStatus = "skipped" /\ POSTING_PAUSED

\* C4: in every cycle the channel sends, and with them the ids added to the ledger
\* and the value of count, number at most NEWS_PER_RUN.
C4_QuotaBound ==
    cycStatus \in {"running", "done", "aborted"} =>
       /\ Len(cycAttempted) <= NEWS_PER_RUN
       /\ count <= NEWS_PER_RUN
       /\ Cardinality(sent_ids \ cycLedger) <= NEWS_PER_RUN

\* C4 witness: a cycle ended with NEWS_PER_RUN sends and a new entry left over.
C4_Witness ==
    /\ cycStatus = "done"
    /\ Len(cycAttempted) = NEWS_PER_RUN
    /\ IdsOf(entries) \ sent_ids # {}

\* C5: handling a private message of a sender outside ADMIN_USER_IDS changes neither
\* the pause flag nor the interval nor the campaign settings, whatever the text; a
\* sender with an id and a text gets the refusal, and only that.
C5_NonAdminChangesNothing ==
    [][(upd'.chat_type = "private" /\ upd'.user_id \notin ADMIN_USER_IDS) =>
          /\ UNCHANGED adminVars
          /\ (upd'.user_id # 0 /\ upd'.text # <<>>) =>
                (upd'.branch = "refused" /\ upd'.sends = <<"refusal">>)]_vars

\* C5 witness: a stranger sent "pause", got the refusal, and posting is not paused.
C5_Witness ==
    /\ upd.chat_type = "private"
    /\ upd.user_id = 202
    /\ upd.text = L_pause
    /\ upd.sends = <<"refusal">>
    /\ ~POSTING_PAUSED

\* the words of the text of the update just handled, as handle_admin_text splits them
WordsOf(u) == Split(Lower(Strip(u.text)))

\* the text is "interval N" with N a decimal numeral
IsIntervalN(u) ==
    /\ Len(WordsOf(u)) = 2
    /\ WordsOf(u)[2] # <<>>
    /\ \A k \in 1..Len(WordsOf(u)[2]) : WordsOf(u)[2][k] \in DOMAIN DecimalValue

\* C6: an admin's interval command sets NEWS_INTERVAL_MINUTES to N exactly when the
\* text is "interval N" with 5 <= N <= 180; otherwise the interval stays as it is;
\* in both cases one reply is sent; and the interval is within 5..180 in every state.
C6_IntervalCommand ==
    /\ [](NEWS_INTERVAL_MINUTES \in 5..180)
    /\ [][upd'.branch = "interval" =>
             /\ Len(upd'.sends) = 1
             /\ NEWS_INTERVAL_MINUTES' =
                   IF IsIntervalN(upd') /\ IntValue(WordsOf(upd')[2]) \in 5..180
                   THEN IntValue(WordsOf(upd')[2])
                   ELSE NEWS_INTERVAL_MINUTES]_vars

\* What the interval branch does keep of C6: the interval is always within 5..180 and
\* changes only to an N in bound; the reply is sent unless the argument is one that
\* str.isdigit() accepts and int() rejects.
C6_ExceptDigitsIntRejects ==
    /\ [](NEWS_INTERVAL_MINUTES \in 5..180)
    /\ [][upd'.branch = "interval" =>
             /\ (Len(upd'.sends) = 1 \/
                   (Len(WordsOf(upd')) = 2 /\ IsDigit(WordsOf(upd')[2])
                      /\ IntRaises(WordsOf(upd')[2]) /\ upd'.sends = <<>> /\ upd'.raised))
             /\ NEWS_INTERVAL_MINUTES' =
                   IF IsIntervalN(upd') /\ IntValue(WordsOf(upd')[2]) \in 5..180
                   THEN IntValue(WordsOf(upd')[2])
                   ELSE NEWS_INTERVAL_MINUTES]_vars

\* a cycle of post_news that fetched has ended, by the end of its loop or by an exception
CycleOver == cycStatus \in {"done", "aborted"}

\* C7: a cycle that is not paused and fetches distinct ids, at most NEWS_PER_RUN of
\* them new, attempts exactly the fetched ids the ledger did not hold, and leaves the
\* ledger as it was plus the fetched ids.
C7_ExactlyTheNewEntries ==
    (/\ CycleOver
     /\ Cardinality(IdsOf(entries)) = Len(entries)
     /\ Cardinality(IdsOf(entries) \ cycLedger) <= NEWS_PER_RUN) =>
       /\ Range(cycAttempted) = IdsOf(entries) \ cycLedger
       /\ sent_ids = cycLedger \cup IdsOf(entries)

\* C7 as it holds: of the cycles whose loop ran to its end.
C7_WhenLoopRanToItsEnd ==
    (/\ cycStatus = "done"
     /\ Cardinality(IdsOf(entries)) = Len(entries)
     /\ Cardinality(IdsOf(entries) \ cycLedger) <= NEWS_PER_RUN) =>
       /\ Range(cycAttempted) = IdsOf(entries) \ cycLedger
       /\ sent_ids = cycLedger \cup IdsOf(entries)

\* the ids of es not in seen, each once, in the order of es
RECURSIVE NewOrder(_, _)
NewOrder(es, seen) ==
    IF es = <<>> THEN <<>>
    ELSE IF Head(es).id \in seen THEN NewOrder(Tail(es), seen)
    ELSE <<Head(es).id>> \o NewOrder(Tail(es), seen \cup {Head(es).id})

\* what C8 says of a cycle that has ended
FirstQuotaOnly ==
    LET new == NewOrder(entries, cycLedger) IN
    Len(new) > NEWS_PER_RUN =>
       /\ entries = Reverse(FetchSource(cycWeb[1]) \o FetchSource(cycWeb[2])
                            \o FetchSource(cycWeb[3]))
       /\ cycAttempted = SubSeq(new, 1, NEWS_PER_RUN)
       /\ \A k \in (NEWS_PER_RUN + 1)..Len(new) :
             new[k] \notin sent_ids /\ new[k] \notin IdsOf(recent_news)

\* C8: a cycle whose fetch holds more than NEWS_PER_RUN new ids attempts and records
\* exactly the first NEWS_PER_RUN of them in the order of the reversed concatenation
\* of the per-source lists; the other new ids stay out of ledger and recent-news list.
C8_FirstQuotaNewEntries == CycleOver => FirstQuotaOnly

\* C8 as it holds: of the cycles whose loop ran to its end.
C8_WhenLoopRanToItsEnd == cycStatus = "done" => FirstQuotaOnly

\* C9: the handling of every text message an admin sends in a private chat issues
\* exactly one send to that chat.
C9_ExactlyOneReply ==
    (upd.chat_type = "private" /\ upd.user_id \in ADMIN_USER_IDS /\ upd.text # <<>>) =>
       Len(upd.sends) = 1

\* C9 as it holds: never more than one send, and exactly one unless an exception
\* left handle_admin_text before the send.
C9_OneReplyUnlessRaised ==
    (upd.chat_type = "private" /\ upd.user_id \in ADMIN_USER_IDS /\ upd.text # <<>>) =>
       /\ Len(upd.sends) <= 1
       /\ Len(upd.sends) = 0 <=> upd.raised

\* C10: while the last pause/resume command handled is a pause, no tick begun after
\* it starts a cycle (fetch) or sends a news item; and whenever posting is not paused,
\* a tick that finds the interval elapsed calls post_news, which then fetches.
C10_PauseStopsCyclesResumeRestarts ==
    /\ [][(cycStatus' = "running" /\ cycStatus # "running") => ~tickAfterPause]_vars
    /\ [][attempts' # attempts => ~tickAfterPause]_vars
    /\ [][(pc = "tick" /\ pc' # pc /\ ~POSTING_PAUSED
             /\ now_ts' - last_news_run_ts >= NEWS_INTERVAL_MINUTES * 60)
          => pc' = "post_news"]_vars
    /\ [][(pc = "post_news" /\ pc' # pc /\ ~POSTING_PAUSED) => cycStatus' = "running"]_vars

\* C10 witness: a cycle runs on the second or a later tick, the last command handled
\* is a resume, and no post_news call has returned before: every earlier tick was
\* stopped by the scheduler's pause gate, so a pause had been handled before it.
C10_Witness ==
    /\ cycStatus = "running"
    /\ ticks >= 2
    /\ last_news_run_ts = 0
    /\ upd.branch = "resume"

\* C11: for every IST date the morning brief is invoked at most once and the night
\* brief at most once, however many ticks fall inside the trigger hour.
C11_BriefOncePerDate ==
    \A j, k \in 1..Len(briefHistory) : briefHistory[j] = briefHistory[k] => j = k

\* C11 witness: a second or later tick fell inside the hour of the morning brief on a
\* date already marked, and its brief section invoked nothing.
C11_Witness ==
    /\ pc = "tick"
    /\ ticks >= 2
    /\ ist_hour(now_ts) = MorningHour
    /\ last_morning_brief_date = ist_date(now_ts)
    /\ briefLog = <<>>
    /\ briefHistory # <<>>

\* C12: ai_summarize never raises and returns a summary text that is not empty, for
\* every title and description and every pair of backend responses.
C12_NeverRaisesNeverEmpty ==
    aiCall.called => (aiCall.outcome # "raises" /\ aiCall.summary # <<>>)

\* the value ai_summarize takes summary_hi from: the first backend answer that is not None
AnswerUsed(c) == IF ai_call(c.deepseek) = "None" THEN ai_call(c.openai) ELSE ai_call(c.deepseek)

\* What ai_summarize does keep of C12: it raises only when the answer it uses is JSON
\* other than an object with string fields, and otherwise returns a text that is not
\* empty, also for an empty title and description.
C12_UnlessAnswerIsNoObjectOfStrings ==
    aiCall.called =>
       IF AnswerUsed(aiCall) \in {"non_object", "object_bad"}
       THEN aiCall.outcome = "raises"
       ELSE aiCall.outcome # "raises" /\ aiCall.summary # <<>>

\* C13: a status command handled after a channel send of the cycle raised, or after an
\* exception ended the cycle, gets a reply that shows the text of that error.
C13_StatusShowsLastError ==
    [][(upd' # upd /\ upd'.branch = "status"
          /\ (lastSend = "raised" \/ cycStatus = "aborted"))
       => "last_error" \in DOMAIN upd'.status]_vars

\* What the status branch does show, errors or none: the interval, the pause flag and
\* the sizes of ledger and recent-news list, as they are when the command is handled.
C13_StatusShowsSettingsAndCounts ==
    [][(upd' # upd /\ upd'.branch = "status") =>
          upd'.status = [interval |-> NEWS_INTERVAL_MINUTES, paused |-> POSTING_PAUSED,
                         sent_ids |-> Cardinality(sent_ids),
                         recent_news |-> Len(recent_news)]]_vars

\* the eids of the first n of the items a source serves
EidsOfFirst(src, n) ==
    {Eid(src.items[k]) : k \in 1..Min(n, Min(Len(src.items), PerFeedLimit))} \ {0}

\* the eids a source yields: all of feed.entries[:6], or those ahead of the failure
Yield(src) ==
    IF src.failAt = 0 THEN EidsOfFirst(src, PerFeedLimit) ELSE EidsOfFirst(src, src.failAt - 1)

\* C14: a cycle that is not paused enters its loop whatever feeds fail, over entries
\* that hold every entry of the feeds that did not fail and nothing of a failing feed
\* beyond what it had yielded before the failure; a loop that runs to its end under
\* the quota leaves every one of them in the ledger.
C14_FeedFailureContained ==
    /\ [][(pc = "post_news" /\ pc' # pc /\ ~POSTING_PAUSED) =>
             /\ pc' = "loop"
             /\ cycStatus' = "running"
             /\ IdsOf(entries') = UNION {Yield(cycWeb'[k]) : k \in 1..Len(RSS_LINKS)}]_vars
    /\ [](cycStatus \in {"running", "done", "aborted"} =>
             \A k \in 1..Len(RSS_LINKS) :
                /\ cycWeb[k].failAt = 0 => EidsOfFirst(cycWeb[k], PerFeedLimit) \subseteq IdsOf(entries)
                /\ (cycStatus = "done" /\ count < NEWS_PER_RUN) => Yield(cycWeb[k]) \subseteq sent_ids)

\* C14 witness: a cycle ended whose first feed had failed at once and whose second
\* feed had failed after one item; that item and an item of the third feed were sent.
C14_Witness ==
    /\ cycStatus = "done"
    /\ cycWeb[1].failAt = 1 /\ cycWeb[1].items # <<>>
    /\ cycWeb[2].failAt = 2 /\ Len(cycWeb[2].items) >= 2
    /\ Eid(cycWeb[2].items[1]) \in Range(cycAttempted)
    /\ Eid(cycWeb[2].items[2]) \notin IdsOf(entries)
    /\ Yield(cycWeb[3]) \cap Range(cycAttempted) # {}

\* C15: no step removes an id from sent_ids, and the only steps that add one are the
\* iterations of the loop of post_news that issue a channel send.
C15_LedgerOnlyGrows ==
    [][/\ sent_ids \subseteq sent_ids'
       /\ sent_ids' # sent_ids =>
             (pc = "loop" /\ cycStatus = "running" /\ attempts' # attempts /\ upd' = upd)]_vars

\* C15 witness: on a second or later tick a cycle has added to a ledger that held ids of
\* an earlier cycle, after a brief and with a test news command the last one handled.
C15_Witness ==
    /\ ticks >= 2
    /\ cycLedger # {}
    /\ cycLedger \subseteq sent_ids
    /\ sent_ids # cycLedger
    /\ briefHistory # <<>>
    /\ upd.branch = "test_news"

\* C16: a tick calls post_news only if posting is not paused and at least the interval
\* in effect has passed since last_news_run_ts; a tick that finds that much or more
\* passed calls it, once; and the clock readings of two consecutive ticks that call it
\* differ by at least the interval in effect at the second.
C16_GateAndSeparation ==
    /\ [][(pc = "tick" /\ pc' = "post_news") =>
             /\ ~POSTING_PAUSED
             /\ now_ts' - last_news_run_ts >= NEWS_INTERVAL_MINUTES * 60]_vars
    /\ [][(pc = "tick" /\ pc' # pc /\ ~POSTING_PAUSED
             /\ now_ts' - last_news_run_ts >= NEWS_INTERVAL_MINUTES * 60)
          => pc' = "post_news"]_vars
    /\ [][(cycStatus' # cycStatus /\ cycStatus' \in {"running", "skipped"}) =>
             (pc = "post_news" /\ cycStatus = "idle")]_vars
    /\ [][(pc = "tick" /\ pc' = "post_news" /\ lastStart # 0) =>
             now_ts' - lastStart >= NEWS_INTERVAL_MINUTES * 60]_vars

\* C16 witness: a tick has called post_news with at least two intervals passed since
\* the call before, and that call was not the first.
C16_Witness ==
    /\ pc = "post_news"
    /\ lastStart = now_ts
    /\ last_news_run_ts # 0
    /\ now_ts - last_news_run_ts >= 2 * NEWS_INTERVAL_MINUTES * 60

\* C17: an exception that leaves post_news ends that cycle with nothing more sent or
\* recorded and the scheduler goes on to the brief section of the same iteration; the
\* scheduler thread is always at one of the positions of its loop; and after such an
\* exception ticks call post_news and invoke the briefs by the same tests as before.
C17_ExceptionEndsOnlyTheCycle ==
    /\ [][(cycStatus' = "aborted" /\ cycStatus # "aborted") =>
             /\ cycStatus = "running"
             /\ pc' = "briefs"
             /\ UNCHANGED <<sent_ids, recent_news, attempts>>]_vars
    /\ [](pc \in {"tick", "post_news", "loop", "briefs"})
    /\ [][(everAborted /\ pc = "tick" /\ pc' # pc /\ ~POSTING_PAUSED
             /\ now_ts' - last_news_run_ts >= NEWS_INTERVAL_MINUTES * 60)
          => pc' = "post_news"]_vars
    /\ [][(everAborted /\ pc = "briefs" /\ pc' # pc) =>
             /\ pc' = "tick"
             /\ (ist_hour(now_ts) = MorningHour /\ last_morning_brief_date # ist_date(now_ts))
                   => <<"morning", ist_date(now_ts)>> \in Range(briefHistory') \ Range(briefHistory)]_vars

\* C17 witness: after an exception had left a post_news call and the brief of that
\* iteration had been invoked, a later tick's cycle has issued a channel send.
C17_Witness ==
    /\ everAborted
    /\ cycStatus = "running"
    /\ cycAttempted # <<>>
    /\ briefHistory # <<>>

\* C18: last_news_run_ts changes only at the end of a cycle whose loop ran to its end,
\* so it is 0 until one has, and a post_news call that returned at its pause gate or
\* was left by an exception does not change it.
C18_AdvancesOnlyOnCompletion ==
    /\ [][last_news_run_ts' # last_news_run_ts => cycStatus' = "done"]_vars
    /\ [][(cycStatus' # cycStatus /\ cycStatus' \in {"skipped", "aborted"}) =>
             last_news_run_ts' = last_news_run_ts]_vars

\* What scheduler_loop does keep of C18: last_news_run_ts changes only when a post_news
\* call returns or is left by an exception, to the clock reading of that tick, and a
\* tick that does not call post_news leaves it.
C18_AdvancesWhenPostNewsWasCalled ==
    /\ [][last_news_run_ts' # last_news_run_ts =>
             /\ pc \in {"post_news", "loop"}
             /\ pc' = "briefs"
             /\ last_news_run_ts' = now_ts
             /\ now_ts = lastStart]_vars
    /\ [](cycStatus = "idle" /\ pc = "briefs" => last_news_run_ts # now_ts)

\* the new ids a cycle is to attempt: the first NEWS_PER_RUN of the fetched ids the
\* ledger did not hold
DueIds ==
    LET new == NewOrder(entries, cycLedger) IN SubSeq(new, 1, Min(Len(new), NEWS_PER_RUN))

\* C19: a cycle that has ended with posting paused (the pause was handled after the
\* cycle was entered) has attempted and recorded every new entry up to the quota.
C19_PausedCycleStillDelivers ==
    (CycleOver /\ POSTING_PAUSED) =>
       /\ cycAttempted = DueIds
       /\ Range(DueIds) \subseteq sent_ids
       /\ Range(DueIds) \subseteq IdsOf(recent_news)

\* What post_news does keep of C19: no step of the loop reads the pause flag. A loop
\* that ran to its end with posting paused has attempted and recorded every new entry
\* up to the quota, and the loop is left early only by an exception of ai_summarize.
C19_PauseNeverEndsTheLoop ==
    /\ []((cycStatus = "done" /\ POSTING_PAUSED) =>
             /\ cycAttempted = DueIds
             /\ Range(DueIds) \subseteq sent_ids
             /\ Range(DueIds) \subseteq IdsOf(recent_news))
    /\ [][(pc = "loop" /\ pc' # pc /\ POSTING_PAUSED) =>
             (cycStatus' = "aborted" \/ idx > Len(entries) \/ count >= NEWS_PER_RUN)]_vars

\* C20: the brief section of a tick in the trigger hour whose date differs from the
\* recorded brief date invokes the brief and records the date, whether or not posting
\* is paused and whatever becomes of the brief.
C20_BriefsIgnorePause ==
    [][(pc = "briefs" /\ pc' # pc) =>
          /\ (ist_hour(now_ts) = MorningHour /\ last_morning_brief_date # ist_date(now_ts)) =>
                /\ last_morning_brief_date' = ist_date(now_ts)
                /\ \E k \in 1..Len(briefLog') : briefLog'[k][1] = "morning"
          /\ (ist_hour(now_ts) = NightHour /\ last_night_brief_date # ist_date(now_ts)) =>
                /\ last_night_brief_date' = ist_date(now_ts)
                /\ \E k \in 1..Len(briefLog') : briefLog'[k][1] = "night"]_vars

\* C20 witness: on a tick begun with posting paused the night brief was invoked, found
\* recent news, failed to send, and the date is recorded.
C20_Witness ==
    /\ tickAfterPause
    /\ POSTING_PAUSED
    /\ briefLog = <<<<"night", "send_failed">>>>
    /\ last_night_brief_date = ist_date(now_ts)

CyclesNeeded == (NumIds + NEWS_PER_RUN - 1) \div NEWS_PER_RUN

\* the scheduler is between two iterations with CyclesNeeded or more still to come
TicksAhead == pc = "tick" /\ ticks + CyclesNeeded <= MaxTicks

\* the fetched ids outside the ledger when the cycle fetched
NewAtFetch == IdsOf(entries) \ cycLedger

C22_EveryEndedLoopRecordsItsDue ==
    cycStatus = "done" =>
       Cardinality(NewAtFetch \cap sent_ids) = Min(NEWS_PER_RUN, Cardinality(NewAtFetch))

\* C22 as a property of whole runs: if from some point on, with ticks still to come,
\* posting is not paused and every fetch returns the same entries, then eventually the
\* id of every one of these entries is in the ledger.
C22_EventuallyAllRecorded ==
    \A w \in LiveWebs :
       <>(TicksAhead /\ [](~POSTING_PAUSED /\ cycWeb \in {<<>>, w}))
          => <>(IdsOf(fetch_news(w)) \subseteq sent_ids)

\* What the pipeline does keep of C22: the same, of the runs in which from that point
\* on no exception leaves post_news.
C22_UnlessCyclesAbort ==
    \A w \in LiveWebs :
       <>(TicksAhead /\ [](~POSTING_PAUSED /\ cycWeb \in {<<>>, w} /\ cycStatus # "aborted"))
          => <>(IdsOf(fetch_news(w)) \subseteq sent_ids)

===============================================================================
